---- MODULE Spec2Model ----
(***************************************************************************)
(* Inventory and order-management backend (backend/server.py).             *)
(*                                                                         *)
(* The state is the MongoDB collections the order engine and the catalog   *)
(* read and write (products, inventory, purchase_orders, sales_orders,     *)
(* transactions, categories, product_types) and the position of every      *)
(* request handler that is in flight.  The handlers  *)
(* are asyncio coroutines: they interleave at every awaited store call,    *)
(* so every awaited store read or write that a claim depends on is one     *)
(* step of the model.  Reads whose result is only cosmetic (product,       *)
(* supplier, customer, category and type names) are folded into the next   *)
(* step of the handler.                                                    *)
(***************************************************************************)
EXTENDS Integers, Sequences, FiniteSets, TLC

\* ------------------------------------------------------------------ bounds
MaxSlots == 2
MaxRequests == 3
MaxSeqRequests == 4
MaxTotRequests == 2
MaxItems == 2
MaxQty == 1
MaxSeqQty == 3
MaxPrice == 2
MaxCatRequests == 3
MaxDashRequests == 3
MaxLiveRequests == 3
MaxAuthRequests == 3

Slots == 1..MaxSlots
ProductIds == {"p1", "p2"}
Skus == {"X1", "X2"}
CategoryIds == {"c1", "c2"}
TypeIds == {"t1", "t2"}
Names == {"a", "b"}
Roles == {"employee", "manager", "admin"}
Emails == {"e1", "e2"}
Passwords == {"k1", "k2"}

VARIABLES
    products,         \* db.products: set of documents (product_id is fresh)
    inventory,        \* db.inventory: documents in insertion (natural) order
    purchase_orders,  \* db.purchase_orders: documents in insertion order
    sales_orders,     \* db.sales_orders: documents in insertion order
    transactions,     \* db.transactions: documents in insertion order
    categories,       \* db.categories: set of documents (category_id is fresh)
    product_types,    \* db.product_types: set of documents (type_id is fresh)
    users,            \* db.users: documents in insertion order
    user_sessions,    \* db.user_sessions: documents in insertion order
    issued,           \* (history) the tokens handed to clients, each with the user
                      \* it was issued to and whether that user has logged out since
    req,              \* per handler slot: the request in flight, its position and
                      \* (history) the number of store writes it has made
    responses         \* the responses returned so far, in order of completion

vars ==
    <<products, inventory, purchase_orders, sales_orders, transactions, categories, product_types,
      users, user_sessions, issued, req, responses>>
taxonomy == <<categories, product_types>>
auth == <<users, user_sessions, issued>>
commerce == <<products, inventory, purchase_orders, sales_orders, transactions, taxonomy>>
db == <<products, inventory, purchase_orders, sales_orders, transactions, taxonomy, auth>>

\* ----------------------------------------------------------------- helpers
Min(S) == CHOOSE x \in S : \A y \in S : x <= y

RECURSIVE SumSeq(_)
SumSeq(s) == IF s = <<>> THEN 0 ELSE s[1] + SumSeq(Tail(s))

\* The request bodies (PurchaseOrderItem / SalesOrderItem): quantity is any
\* int, unit_price and total any number; 'total' is supplied by the client.
Item(P, Q, U, T) == [product_id : P, quantity : Q, unit_price : U, total : T]
ListsOf(S, n) == UNION {[1..k -> S] : k \in 0..n}

\* Request bodies of the concurrent specification.
MainLists == ListsOf(Item({"p1"}, {-1} \cup 1..MaxQty, {1}, {0}), MaxItems)
\* Request bodies of the two-product specification.
TwoLists == ListsOf(Item(ProductIds, 1..MaxQty, {1}, {0}), MaxItems)
\* Request bodies of the sequential specification: single-line orders.
SeqLists == ListsOf(Item({"p1"}, 1..MaxSeqQty, {1}, {0}), 1)
\* Request bodies of the totals specification.
TotLists == ListsOf(Item({"p1"}, 1..MaxSeqQty, 0..MaxPrice, {0, 3}), MaxItems)
\* Request bodies of the two-sales scenario.
ScenarioLists == {<<[product_id |-> "p1", quantity |-> 6, unit_price |-> u, total |-> 0]>> : u \in 1..MaxPrice}

\* find_one({'product_id': p}) on db.inventory: the first matching document
\* in natural order.  Two documents for one product_id arise when a purchase
\* order upserts between the two inserts of create_product.
InvMatches(inv, p) == {k \in 1..Len(inv) : inv[k].product_id = p}
CurrentStock(inv, p) == IF InvMatches(inv, p) = {} THEN 0 ELSE inv[Min(InvMatches(inv, p))].quantity

\* update_one({'product_id': p}, {'$inc': {'quantity': d}}, upsert=...): the
\* first matching document is incremented atomically; without a match the
\* document is inserted when upsert is set and nothing happens otherwise.
\* The upsert is taken as one atomic store operation.
UpdateOneInc(inv, p, d, upsert) ==
    IF InvMatches(inv, p) = {}
    THEN IF upsert THEN Append(inv, [product_id |-> p, quantity |-> d]) ELSE inv
    ELSE [inv EXCEPT ![Min(InvMatches(inv, p))].quantity = @ + d]

\* (a variant that trusts the 'total' the client sent)
LineTotalClient(it) == it.total
\* item.quantity * item.unit_price
LineTotal(it) == it.quantity * it.unit_price

\* total_amount = sum(item.quantity * item.unit_price for item in items)
TotalAmount(items) == SumSeq([k \in 1..Len(items) |-> LineTotal(items[k])])

\* items_with_names (product_name is cosmetic and left out)
ItemsWithNames(items) ==
    [k \in 1..Len(items) |->
        [product_id |-> items[k].product_id, quantity |-> items[k].quantity,
         unit_price |-> items[k].unit_price, total |-> LineTotal(items[k])]]

\* (a variant that lets every role through)
RequireRoleAny(role, allowed) == TRUE
\* require_role(user, allowed_roles)
RequireRole(role, allowed) == role \in allowed

\* 'target' is the id a catalog request names (the path parameter of an update
\* or delete, the category_id of a new product type), 'name' the name it sends.
\* 'stats' holds what get_dashboard_stats has computed so far.
NoStats ==
    [total_revenue |-> 0, total_expenses |-> 0, total_profit |-> 0,
     total_orders |-> 0, pending_orders |-> 0, low_stock_products |-> 0]
\* A token is a JWT signed by the server, whose payload names a user_id
\* ('serial' stands for its 'exp' claim, which differs from one issue to the
\* next), or an opaque session token of the OAuth provider.
NoToken == [type |-> "none", uid |-> 0, serial |-> 0]
Jwt(uid, n) == [type |-> "jwt", uid |-> uid, serial |-> n]
SessionToken(n) == [type |-> "session", uid |-> 0, serial |-> n]
\* a token the server never issued
BogusToken == SessionToken(0)

\* 'token' is the token the request presents and 'stale' (history) whether a
\* logout of its user had completed when the request arrived; 'uid' and
\* 'caller' are the user and the role get_current_user has found; 'email',
\* 'password', 'role' and 'subject' are the body and path parameters of the
\* account handlers.
Idle ==
    [kind |-> "none", pc |-> "idle", items |-> <<>>, i |-> 0, sku |-> "", pid |-> "none", oid |-> 0,
     target |-> "none", name |-> "", stats |-> NoStats,
     token |-> NoToken, stale |-> FALSE, uid |-> 0, caller |-> "", email |-> "", password |-> "",
     role |-> "", subject |-> 0, writes |-> 0]

InFlight == {r \in Slots : req[r].pc # "idle"}
Started == Len(responses) + Cardinality(InFlight)

\* product ids are uuid4 values: a new one differs from every id in the store
\* and from every id a client has sent in a request that is still running.
ItemIds(items) == {items[j].product_id : j \in 1..Len(items)}
UsedIds ==
    {p.product_id : p \in products}
    \cup {inventory[k].product_id : k \in 1..Len(inventory)}
    \cup UNION {ItemIds(purchase_orders[k].items) : k \in 1..Len(purchase_orders)}
    \cup UNION {ItemIds(sales_orders[k].items) : k \in 1..Len(sales_orders)}
    \cup UNION {ItemIds(req[r].items) : r \in Slots}
    \cup {req[r].target : r \in Slots}
\* The id space of the model is finite: a request starts only if every
\* create_product in flight can still draw a new id.
PendingProducts == {r \in Slots : req[r].pc \in {"sku_check", "insert_product"}}
IdsLeft(extra) == Cardinality(ProductIds \ (UsedIds \cup extra))

\* category and type ids are uuid4 values too
UsedCategoryIds ==
    {c.category_id : c \in categories}
    \cup {t.category_id : t \in product_types}
    \cup {req[r].target : r \in Slots}
PendingCategories == {r \in Slots : req[r].pc = "insert_category"}
CategoryIdsLeft(extra) == Cardinality(CategoryIds \ (UsedCategoryIds \cup extra))
UsedTypeIds == {t.type_id : t \in product_types}
PendingTypes == {r \in Slots : req[r].pc = "insert_type"}

Respond(r, status) ==
    /\ responses' = Append(responses, [kind |-> req[r].kind, status |-> status, line |-> IF status = "insufficient_stock" THEN req[r].i ELSE 0])
    /\ req' = [req EXCEPT ![r] = Idle]

Refuse(kind) ==
    /\ responses' = Append(responses, [kind |-> kind, status |-> "forbidden", line |-> 0])
    /\ UNCHANGED req

\* ------------------------------------------------------------------- Init
Init ==
    /\ products = {}
    /\ inventory = <<>>
    /\ purchase_orders = <<>>
    /\ sales_orders = <<>>
    /\ transactions = <<>>
    /\ categories = {}
    /\ product_types = {}
    /\ users = <<>>
    /\ user_sessions = <<>>
    /\ issued = {}
    /\ req = [r \in Slots |-> Idle]
    /\ responses = <<>>

\* --------------------------------------------------------- create_product
\* await require_role(user, ['manager', 'admin']), for a caller of that role
ProductCall(r, role, sku) ==
    IF RequireRole(role, {"manager", "admin"})
    THEN /\ req' = [req EXCEPT ![r] = [Idle EXCEPT !.kind = "product", !.pc = "sku_check", !.sku = sku]]
         /\ UNCHANGED responses
    ELSE Refuse("product")

StartProduct(r, cap) ==
    /\ req[r].pc = "idle"
    /\ Started < cap
    /\ IdsLeft({}) > Cardinality(PendingProducts)
    /\ \E role \in Roles, sku \in Skus : ProductCall(r, role, sku)
    /\ UNCHANGED db

\* (a variant without the SKU check)
SkuNeverExists(sku) == FALSE
\* existing = await db.products.find_one({'sku': product_data.sku})
SkuExists(sku) == \E p \in products : p.sku = sku

ProductSkuCheck(r) ==
    /\ req[r].pc = "sku_check"
    /\ IF SkuExists(req[r].sku)
       THEN Respond(r, "sku_exists")
       ELSE /\ req' = [req EXCEPT ![r].pc = "insert_product"]
            /\ UNCHANGED responses
    /\ UNCHANGED db

\* product_id = f"prod_{uuid4}"; await db.products.insert_one(product_doc)
ProductInsert(r) ==
    /\ req[r].pc = "insert_product"
    /\ \E id \in ProductIds \ UsedIds :
        /\ products' = products \cup {[product_id |-> id, sku |-> req[r].sku]}
        /\ req' = [req EXCEPT ![r].pc = "insert_inventory", ![r].pid = id, ![r].writes = @ + 1]
    /\ UNCHANGED <<inventory, purchase_orders, sales_orders, transactions, taxonomy, auth, responses>>

\* await db.inventory.insert_one({'product_id': product_id, 'quantity': 0, ...})
ProductInitInventory(r) ==
    /\ req[r].pc = "insert_inventory"
    /\ inventory' = Append(inventory, [product_id |-> req[r].pid, quantity |-> 0])
    /\ Respond(r, "ok")
    /\ UNCHANGED <<products, purchase_orders, sales_orders, transactions, taxonomy, auth>>

\* --------------------------------------------------------- update_product
\* await require_role(user, ['manager', 'admin']), for a caller of that role
UpdateProductCall(r, role, id, sku) ==
    IF RequireRole(role, {"manager", "admin"})
    THEN /\ req' = [req EXCEPT ![r] = [Idle EXCEPT !.kind = "update_product", !.pc = "update_product",
                                                   !.target = id, !.sku = sku]]
         /\ UNCHANGED responses
    ELSE Refuse("update_product")

StartUpdateProduct(r, cap) ==
    /\ req[r].pc = "idle"
    /\ Started < cap
    /\ \E role \in Roles, id \in ProductIds, sku \in Skus :
        /\ IdsLeft({id}) >= Cardinality(PendingProducts)
        /\ UpdateProductCall(r, role, id, sku)
    /\ UNCHANGED db

\* $set of update_one: the SKU of the body replaces the stored one.  (name,
\* category_id, type_id and status are set too; no product field other than
\* product_id and sku is kept in the model.)
SetSku(p, sku) == [p EXCEPT !.sku = sku]

\* result = await db.products.update_one({'product_id': product_id}, {'$set':
\* {'sku': product_data.sku, ...}}); 404 when matched_count == 0.  The reads
\* that build the response follow; products are never deleted.
UpdateProduct(r) ==
    /\ req[r].pc = "update_product"
    /\ IF \E p \in products : p.product_id = req[r].target
       THEN /\ products' = {IF p.product_id = req[r].target THEN SetSku(p, req[r].sku) ELSE p : p \in products}
            /\ Respond(r, "ok")
       ELSE /\ UNCHANGED products
            /\ Respond(r, "not_found")
    /\ UNCHANGED <<inventory, purchase_orders, sales_orders, transactions, taxonomy, auth>>

\* -------------------------------------------------------------- categories
\* create_category: await require_role(user, ['manager', 'admin'])
CreateCategoryCall(r, role, name) ==
    IF RequireRole(role, {"manager", "admin"})
    THEN /\ req' = [req EXCEPT ![r] = [Idle EXCEPT !.kind = "create_category", !.pc = "insert_category", !.name = name]]
         /\ UNCHANGED responses
    ELSE Refuse("create_category")

StartCreateCategory(r, cap) ==
    /\ req[r].pc = "idle"
    /\ Started < cap
    /\ CategoryIdsLeft({}) > Cardinality(PendingCategories)
    /\ \E role \in Roles, name \in Names : CreateCategoryCall(r, role, name)
    /\ UNCHANGED db

\* category_id = f"cat_{uuid4}"; await db.categories.insert_one(category_doc)
CategoryInsert(r) ==
    /\ req[r].pc = "insert_category"
    /\ \E id \in CategoryIds \ UsedCategoryIds :
        categories' = categories \cup {[category_id |-> id, name |-> req[r].name]}
    /\ Respond(r, "ok")
    /\ UNCHANGED <<products, inventory, purchase_orders, sales_orders, transactions, product_types, auth>>

\* update_category: await require_role(user, ['manager', 'admin'])
UpdateCategoryCall(r, role, id, name) ==
    IF RequireRole(role, {"manager", "admin"})
    THEN /\ req' = [req EXCEPT ![r] = [Idle EXCEPT !.kind = "update_category", !.pc = "update_category",
                                                   !.target = id, !.name = name]]
         /\ UNCHANGED responses
    ELSE Refuse("update_category")

StartUpdateCategory(r, cap) ==
    /\ req[r].pc = "idle"
    /\ Started < cap
    /\ \E role \in Roles, id \in CategoryIds, name \in Names :
        /\ CategoryIdsLeft({id}) >= Cardinality(PendingCategories)
        /\ UpdateCategoryCall(r, role, id, name)
    /\ UNCHANGED db

\* result = await db.categories.update_one({'category_id': category_id},
\* {'$set': {'name': ..., 'description': ...}}); 404 when matched_count == 0
CategoryUpdate(r) ==
    /\ req[r].pc = "update_category"
    /\ IF \E c \in categories : c.category_id = req[r].target
       THEN /\ categories' = {IF c.category_id = req[r].target THEN [c EXCEPT !.name = req[r].name] ELSE c : c \in categories}
            /\ req' = [req EXCEPT ![r].pc = "read_category", ![r].writes = @ + 1]
            /\ UNCHANGED responses
       ELSE /\ UNCHANGED categories
            /\ Respond(r, "not_found")
    /\ UNCHANGED <<products, inventory, purchase_orders, sales_orders, transactions, product_types, auth>>

\* category_doc = await db.categories.find_one({'category_id': category_id});
\* category_doc['created_at'] raises when the category has been deleted since.
CategoryRead(r) ==
    /\ req[r].pc = "read_category"
    /\ IF \E c \in categories : c.category_id = req[r].target
       THEN Respond(r, "ok")
       ELSE Respond(r, "error")
    /\ UNCHANGED db

\* delete_category: await require_role(user, ['manager', 'admin'])
DeleteCategoryCall(r, role, id) ==
    IF RequireRole(role, {"manager", "admin"})
    THEN /\ req' = [req EXCEPT ![r] = [Idle EXCEPT !.kind = "delete_category", !.pc = "delete_category", !.target = id]]
         /\ UNCHANGED responses
    ELSE Refuse("delete_category")

StartDeleteCategory(r, cap) ==
    /\ req[r].pc = "idle"
    /\ Started < cap
    /\ \E role \in Roles, id \in CategoryIds :
        /\ CategoryIdsLeft({id}) >= Cardinality(PendingCategories)
        /\ DeleteCategoryCall(r, role, id)
    /\ UNCHANGED db

\* result = await db.categories.delete_one({'category_id': category_id});
\* 404 when deleted_count == 0
CategoryDelete(r) ==
    /\ req[r].pc = "delete_category"
    /\ IF \E c \in categories : c.category_id = req[r].target
       THEN /\ categories' = {c \in categories : c.category_id # req[r].target}
            /\ Respond(r, "ok")
       ELSE /\ UNCHANGED categories
            /\ Respond(r, "not_found")
    /\ UNCHANGED <<products, inventory, purchase_orders, sales_orders, transactions, product_types, auth>>

\* ----------------------------------------------------------- product types
\* create_product_type: await require_role(user, ['manager', 'admin']); the
\* category_id of the body is not looked up before the insert.
CreateTypeCall(r, role, name, category_id) ==
    IF RequireRole(role, {"manager", "admin"})
    THEN /\ req' = [req EXCEPT ![r] = [Idle EXCEPT !.kind = "create_type", !.pc = "insert_type",
                                                   !.name = name, !.target = category_id]]
         /\ UNCHANGED responses
    ELSE Refuse("create_type")

StartCreateType(r, cap) ==
    /\ req[r].pc = "idle"
    /\ Started < cap
    /\ Cardinality(TypeIds \ UsedTypeIds) > Cardinality(PendingTypes)
    /\ \E role \in Roles, name \in Names, category_id \in CategoryIds :
        /\ CategoryIdsLeft({category_id}) >= Cardinality(PendingCategories)
        /\ CreateTypeCall(r, role, name, category_id)
    /\ UNCHANGED db

\* type_id = f"type_{uuid4}"; await db.product_types.insert_one(type_doc)
TypeInsert(r) ==
    /\ req[r].pc = "insert_type"
    /\ \E id \in TypeIds \ UsedTypeIds :
        product_types' = product_types \cup {[type_id |-> id, name |-> req[r].name, category_id |-> req[r].target]}
    /\ Respond(r, "ok")
    /\ UNCHANGED <<products, inventory, purchase_orders, sales_orders, transactions, categories, auth>>

\* -------------------------------------------------- create_purchase_order
\* (a variant without the role check)
PurchaseCallOpen(r, role, items) ==
    /\ req' = [req EXCEPT ![r] = [Idle EXCEPT !.kind = "purchase", !.pc = "insert_order", !.items = items]]
    /\ UNCHANGED responses
\* await require_role(user, ['manager', 'admin']), for a caller of that role;
\* the body is not validated.
PurchaseCall(r, role, items) ==
    IF RequireRole(role, {"manager", "admin"})
    THEN /\ req' = [req EXCEPT ![r] = [Idle EXCEPT !.kind = "purchase", !.pc = "insert_order", !.items = items]]
         /\ UNCHANGED responses
    ELSE Refuse("purchase")

StartPurchase(r, lists, cap) ==
    /\ req[r].pc = "idle"
    /\ Started < cap
    /\ \E role \in Roles, items \in lists :
        /\ IdsLeft(ItemIds(items)) >= Cardinality(PendingProducts)
        /\ PurchaseCall(r, role, items)
    /\ UNCHANGED db

\* po_doc (687-699)
PoDoc(n, items) ==
    [id |-> n, items |-> ItemsWithNames(items), total_amount |-> TotalAmount(items),
     payment_status |-> "unpaid", paid_amount |-> 0]

\* await db.purchase_orders.insert_one(po_doc)
PurchaseInsert(r) ==
    /\ req[r].kind = "purchase"
    /\ req[r].pc = "insert_order"
    /\ purchase_orders' = Append(purchase_orders, PoDoc(Len(purchase_orders) + 1, req[r].items))
    /\ req' = [req EXCEPT ![r].pc = IF req[r].items = <<>> THEN "insert_txn" ELSE "adjust",
                          ![r].i = 1, ![r].oid = Len(purchase_orders) + 1, ![r].writes = @ + 1]
    /\ UNCHANGED <<products, inventory, sales_orders, transactions, taxonomy, auth, responses>>

\* one iteration of: for item in order_data.items: await db.inventory.update_one(
\*   {'product_id': ...}, {'$inc': {'quantity': item.quantity}, ...}, upsert=True)
PurchaseDelta(q) == q
PurchaseUpsert == TRUE
PurchaseAdjust(r) ==
    /\ req[r].kind = "purchase"
    /\ req[r].pc = "adjust"
    /\ LET it == req[r].items[req[r].i] IN
        inventory' = UpdateOneInc(inventory, it.product_id, PurchaseDelta(it.quantity), PurchaseUpsert)
    /\ req' = [req EXCEPT ![r].i = @ + 1, ![r].writes = @ + 1,
                          ![r].pc = IF req[r].i = Len(req[r].items) THEN "insert_txn" ELSE "adjust"]
    /\ UNCHANGED <<products, purchase_orders, sales_orders, transactions, taxonomy, auth, responses>>

\* the ledger documents (711-721, 833-843)
PurchaseTxn(po_id, amount) ==
    [type |-> "expense", category |-> "purchase", amount |-> amount, related_to |-> <<"po", po_id>>]
SalesTxn(order_id, amount) ==
    [type |-> "income", category |-> "sales", amount |-> amount, related_to |-> <<"so", order_id>>]

\* await db.transactions.insert_one({...}); return PurchaseOrder(...)
PurchaseLedger(r) ==
    /\ req[r].kind = "purchase"
    /\ req[r].pc = "insert_txn"
    /\ transactions' = Append(transactions, PurchaseTxn(req[r].oid, TotalAmount(req[r].items)))
    /\ Respond(r, "ok")
    /\ UNCHANGED <<products, inventory, purchase_orders, sales_orders, taxonomy, auth>>

\* ----------------------------------------------------- create_sales_order
\* No require_role: the caller's role is never read; the body is not validated.
SalesCall(r, role, items) ==
    /\ req' = [req EXCEPT ![r] = [Idle EXCEPT !.kind = "sales", !.i = 1, !.items = items,
                                              !.pc = IF items = <<>> THEN "insert_order" ELSE "stock_check"]]
    /\ UNCHANGED responses

StartSales(r, lists, cap) ==
    /\ req[r].pc = "idle"
    /\ Started < cap
    /\ \E role \in Roles, items \in lists :
        /\ IdsLeft(ItemIds(items)) >= Cardinality(PendingProducts)
        /\ SalesCall(r, role, items)
    /\ UNCHANGED db

\* (a variant that also refuses a request for exactly the stock)
InsufficientOffByOne(stock, q) == stock <= q
\* if current_stock < item.quantity: raise HTTPException(400, "Insufficient stock ...")
Insufficient(stock, q) == stock < q

\* (a variant that takes each line from stock as soon as it has passed)
SalesStockCheckEager(r) ==
    /\ req[r].pc = "stock_check"
    /\ LET it == req[r].items[req[r].i] IN
        IF Insufficient(CurrentStock(inventory, it.product_id), it.quantity)
        THEN Respond(r, "insufficient_stock") /\ UNCHANGED inventory
        ELSE /\ req' = [req EXCEPT ![r].i = IF req[r].i = Len(req[r].items) THEN 1 ELSE @ + 1, ![r].writes = @ + 1,
                                   ![r].pc = IF req[r].i = Len(req[r].items) THEN "insert_order" ELSE "stock_check"]
             /\ inventory' = UpdateOneInc(inventory, it.product_id, -it.quantity, FALSE)
             /\ UNCHANGED responses
    /\ UNCHANGED <<products, purchase_orders, sales_orders, transactions, taxonomy, auth>>

\* (a variant that waits for the stock to arrive instead of refusing)
SalesStockCheckWait(r) ==
    /\ req[r].pc = "stock_check"
    /\ LET it == req[r].items[req[r].i] IN
        /\ ~Insufficient(CurrentStock(inventory, it.product_id), it.quantity)
        /\ req' = [req EXCEPT ![r].i = IF req[r].i = Len(req[r].items) THEN 1 ELSE @ + 1,
                              ![r].pc = IF req[r].i = Len(req[r].items) THEN "insert_order" ELSE "stock_check"]
        /\ UNCHANGED responses
    /\ UNCHANGED db

\* one iteration of: for item in order_data.items:
\*   inventory = await db.inventory.find_one({'product_id': item.product_id})
SalesStockCheck(r) ==
    /\ req[r].pc = "stock_check"
    /\ LET it == req[r].items[req[r].i] IN
        IF Insufficient(CurrentStock(inventory, it.product_id), it.quantity)
        THEN Respond(r, "insufficient_stock")
        ELSE /\ req' = [req EXCEPT ![r].i = IF req[r].i = Len(req[r].items) THEN 1 ELSE @ + 1,
                                   ![r].pc = IF req[r].i = Len(req[r].items) THEN "insert_order" ELSE "stock_check"]
             /\ UNCHANGED responses
    /\ UNCHANGED db

\* so_doc (810-822)
SoDoc(n, items) ==
    [id |-> n, items |-> ItemsWithNames(items), total_amount |-> TotalAmount(items),
     payment_status |-> "unpaid", paid_amount |-> 0]

\* await db.sales_orders.insert_one(so_doc)
SalesInsert(r) ==
    /\ req[r].kind = "sales"
    /\ req[r].pc = "insert_order"
    /\ sales_orders' = Append(sales_orders, SoDoc(Len(sales_orders) + 1, req[r].items))
    /\ req' = [req EXCEPT ![r].pc = IF req[r].items = <<>> THEN "insert_txn" ELSE "adjust",
                          ![r].i = 1, ![r].oid = Len(sales_orders) + 1, ![r].writes = @ + 1]
    /\ UNCHANGED <<products, inventory, purchase_orders, transactions, taxonomy, auth, responses>>

\* one iteration of: for item in order_data.items: await db.inventory.update_one(
\*   {'product_id': ...}, {'$inc': {'quantity': -item.quantity}, ...})   (no upsert)
SalesDelta(q) == -q
SalesUpsert == FALSE
SalesAdjust(r) ==
    /\ req[r].kind = "sales"
    /\ req[r].pc = "adjust"
    /\ LET it == req[r].items[req[r].i] IN
        inventory' = UpdateOneInc(inventory, it.product_id, SalesDelta(it.quantity), SalesUpsert)
    /\ req' = [req EXCEPT ![r].i = @ + 1, ![r].writes = @ + 1,
                          ![r].pc = IF req[r].i = Len(req[r].items) THEN "insert_txn" ELSE "adjust"]
    /\ UNCHANGED <<products, purchase_orders, sales_orders, transactions, taxonomy, auth, responses>>

\* (a variant that keeps one income entry and rewrites it on every sale)
SalesLedgerRewrite(r) ==
    /\ req[r].kind = "sales"
    /\ req[r].pc = "insert_txn"
    /\ transactions' =
         IF \E k \in 1..Len(transactions) : transactions[k].type = "income"
         THEN [k \in 1..Len(transactions) |->
                 IF transactions[k].type = "income"
                 THEN SalesTxn(req[r].oid, transactions[k].amount + TotalAmount(req[r].items))
                 ELSE transactions[k]]
         ELSE Append(transactions, SalesTxn(req[r].oid, TotalAmount(req[r].items)))
    /\ Respond(r, "ok")
    /\ UNCHANGED <<products, inventory, purchase_orders, sales_orders, taxonomy, auth>>
\* await db.transactions.insert_one({...}); return SalesOrder(...)
SalesLedger(r) ==
    /\ req[r].kind = "sales"
    /\ req[r].pc = "insert_txn"
    /\ transactions' = Append(transactions, SalesTxn(req[r].oid, TotalAmount(req[r].items)))
    /\ Respond(r, "ok")
    /\ UNCHANGED <<products, inventory, purchase_orders, sales_orders, taxonomy, auth>>

\* ----------------------------------------------------- get_dashboard_stats
\* Any authenticated caller; every awaited read is a step of its own.
StartDashboard(r, cap) ==
    /\ req[r].pc = "idle"
    /\ Started < cap
    /\ IdsLeft({}) >= Cardinality(PendingProducts)
    /\ req' = [req EXCEPT ![r] = [Idle EXCEPT !.kind = "dashboard", !.pc = "read_income"]]
    /\ UNCHANGED <<db, responses>>

\* sum(txn['amount'] for txn in <transactions of the type>)
SumAmounts(txns, type) ==
    SumSeq([k \in 1..Len(txns) |-> IF txns[k].type = type THEN txns[k].amount ELSE 0])

\* income_txns = await db.transactions.find({'type': 'income'}).to_list(10000)
DashIncome(r) ==
    /\ req[r].pc = "read_income"
    /\ req' = [req EXCEPT ![r].stats.total_revenue = SumAmounts(transactions, "income"),
                          ![r].pc = "read_expense"]
    /\ UNCHANGED <<db, responses>>

\* (a variant that reports the revenue as the profit)
ProfitGross(revenue, expenses) == revenue
\* total_profit = total_revenue - total_expenses
Profit(revenue, expenses) == revenue - expenses

\* expense_txns = await db.transactions.find({'type': 'expense'}).to_list(10000)
DashExpense(r) ==
    /\ req[r].pc = "read_expense"
    /\ LET expenses == SumAmounts(transactions, "expense") IN
        req' = [req EXCEPT ![r].stats.total_expenses = expenses,
                           ![r].stats.total_profit = Profit(req[r].stats.total_revenue, expenses),
                           ![r].pc = "count_orders"]
    /\ UNCHANGED <<db, responses>>

\* total_orders = await db.sales_orders.count_documents({})
DashCountOrders(r) ==
    /\ req[r].pc = "count_orders"
    /\ req' = [req EXCEPT ![r].stats.total_orders = Len(sales_orders), ![r].pc = "count_pending"]
    /\ UNCHANGED <<db, responses>>

\* pending_orders = await db.sales_orders.count_documents({'payment_status': {'$ne': 'paid'}})
DashCountPending(r) ==
    /\ req[r].pc = "count_pending"
    /\ req' = [req EXCEPT ![r].stats.pending_orders =
                              Cardinality({k \in 1..Len(sales_orders) : sales_orders[k].payment_status # "paid"}),
                          ![r].pc = "count_low_stock"]
    /\ UNCHANGED <<db, responses>>

\* low_stock = await db.inventory.count_documents({'quantity': {'$lt': 10}});
\* the counts of customers and suppliers follow; return DashboardStats(...)
DashLowStock(r) ==
    /\ req[r].pc = "count_low_stock"
    /\ LET stats == [req[r].stats EXCEPT !.low_stock_products =
                        Cardinality({k \in 1..Len(inventory) : inventory[k].quantity < 10})]
       IN responses' = Append(responses, [kind |-> "dashboard", status |-> "ok", line |-> 0, stats |-> stats])
    /\ req' = [req EXCEPT ![r] = Idle]
    /\ UNCHANGED db

\* ---------------------------------------------------------------- accounts
\* user ids are uuid4 values; the n-th account created gets the id n
NewUserId == Len(users) + 1
\* the serial of the next token
Serials == {t.token.serial : t \in issued} \cup {req[r].token.serial : r \in Slots}
NextSerial == (CHOOSE n \in Serials \cup {0} : \A m \in Serials : m <= n) + 1
Issue(token, uid) == [token |-> token, uid |-> uid, revoked |-> FALSE]

\* find_one({'email': email}) / find_one({'user_id': uid}) on db.users
UsersByEmail(email) == {k \in 1..Len(users) : users[k].email = email}
UsersById(uid) == {k \in 1..Len(users) : users[k].user_id = uid}

\* The tokens a client can present: one it was issued, or one it made up.
\* jwt.decode fails on every token the server has not signed.
Presentable == {[token |-> t.token, stale |-> t.revoked] : t \in issued} \cup {[token |-> BogusToken, stale |-> FALSE]}

\* get_current_user, up to its first awaited call: jwt.decode succeeds on a
\* JWT and yields its user_id; another token is looked up as a session.
Authenticate(r, kind, p) ==
    [Idle EXCEPT !.kind = kind, !.token = p.token, !.stale = p.stale,
                 !.uid = IF p.token.type = "jwt" THEN p.token.uid ELSE 0,
                 !.pc = IF p.token.type = "jwt" THEN "auth_user" ELSE "auth_session"]

\* session_doc = await db.user_sessions.find_one({'session_token': token});
\* 401 when there is none (expiry, 7 days after the insert, is left out)
AuthSession(r) ==
    /\ req[r].pc = "auth_session"
    /\ LET found == {k \in 1..Len(user_sessions) : user_sessions[k].session_token = req[r].token} IN
        IF found = {}
        THEN Respond(r, "unauthenticated")
        ELSE /\ req' = [req EXCEPT ![r].uid = user_sessions[Min(found)].user_id, ![r].pc = "auth_user"]
             /\ UNCHANGED responses
    /\ UNCHANGED db

\* what follows get_current_user in each handler: get_me returns, logout
\* deletes the sessions, update_user_role checks the role and the new role
AfterAuth(r, role) ==
    CASE req[r].kind = "me" -> Respond(r, "ok")
      [] req[r].kind = "logout" -> req' = [req EXCEPT ![r].pc = "delete_sessions", ![r].caller = role] /\ UNCHANGED responses
      [] req[r].kind = "update_role" ->
            IF ~RequireRole(role, {"admin"})
            THEN Respond(r, "forbidden")
            ELSE IF req[r].role \notin {"employee", "manager", "admin"}
                 THEN Respond(r, "invalid_role")
                 ELSE req' = [req EXCEPT ![r].pc = "update_role", ![r].caller = role] /\ UNCHANGED responses

\* user_doc = await db.users.find_one({'user_id': user_id}); 401 when there
\* is none; return User(**user_doc)
AuthUser(r) ==
    /\ req[r].pc = "auth_user"
    /\ IF UsersById(req[r].uid) = {}
       THEN Respond(r, "unauthenticated")
       ELSE AfterAuth(r, users[Min(UsersById(req[r].uid))].role)
    /\ UNCHANGED db

\* An awaited call inside get_current_user raises: 'except Exception' turns
\* every exception into 401.
AuthError(r) ==
    /\ req[r].pc \in {"auth_session", "auth_user"}
    /\ Respond(r, "unauthenticated")
    /\ UNCHANGED db

\* register: no authentication; the body carries email, password and role
StartRegister(r, cap) ==
    /\ req[r].pc = "idle"
    /\ Started < cap
    /\ \E email \in Emails, password \in Passwords, role \in Roles :
        req' = [req EXCEPT ![r] = [Idle EXCEPT !.kind = "register", !.pc = "find_email", !.email = email,
                                                !.password = password, !.role = role]]
    /\ UNCHANGED <<db, responses>>

\* existing = await db.users.find_one({'email': user_data.email}); 400 if any
RegisterCheck(r) ==
    /\ req[r].pc = "find_email"
    /\ IF UsersByEmail(req[r].email) # {}
       THEN Respond(r, "email_taken")
       ELSE /\ req' = [req EXCEPT ![r].pc = "insert_user"]
            /\ UNCHANGED responses
    /\ UNCHANGED db

\* 'role': user_data.role
RegisterRole(role) == role

\* await db.users.insert_one(user_doc); token = jwt.encode({'user_id': ...})
RegisterInsert(r) ==
    /\ req[r].pc = "insert_user"
    /\ users' = Append(users, [user_id |-> NewUserId, email |-> req[r].email, role |-> RegisterRole(req[r].role),
                               password |-> req[r].password])
    /\ issued' = issued \cup {Issue(Jwt(NewUserId, NextSerial), NewUserId)}
    /\ Respond(r, "ok")
    /\ UNCHANGED <<commerce, user_sessions>>

\* login: no authentication; the body carries email and password
StartLogin(r, cap) ==
    /\ req[r].pc = "idle"
    /\ Started < cap
    /\ \E email \in Emails, password \in Passwords :
        req' = [req EXCEPT ![r] = [Idle EXCEPT !.kind = "login", !.pc = "find_login", !.email = email,
                                                !.password = password]]
    /\ UNCHANGED <<db, responses>>

\* user_doc = await db.users.find_one({'email': ...}); 401 without a user or
\* with another password; user_doc['password_hash'] raises for an account
\* that google_auth_session created; token = jwt.encode({'user_id': ...})
LoginFind(r) ==
    /\ req[r].pc = "find_login"
    /\ IF UsersByEmail(req[r].email) = {}
       THEN Respond(r, "invalid_credentials") /\ UNCHANGED issued
       ELSE LET u == users[Min(UsersByEmail(req[r].email))] IN
            IF u.password = "none"
            THEN Respond(r, "error") /\ UNCHANGED issued
            ELSE IF u.password # req[r].password
                 THEN Respond(r, "invalid_credentials") /\ UNCHANGED issued
                 ELSE /\ issued' = issued \cup {Issue(Jwt(u.user_id, NextSerial), u.user_id)}
                      /\ Respond(r, "ok")
    /\ UNCHANGED <<commerce, users, user_sessions>>

\* google_auth_session: the OAuth provider has answered with the email and
\* a new session token (a request it does not vouch for ends with 400 or 401
\* before any store call)
StartGoogle(r, cap) ==
    /\ req[r].pc = "idle"
    /\ Started < cap
    /\ \E email \in Emails :
        req' = [req EXCEPT ![r] = [Idle EXCEPT !.kind = "google", !.pc = "find_google", !.email = email,
                                                !.token = SessionToken(NextSerial)]]
    /\ UNCHANGED <<db, responses>>

\* user_doc = await db.users.find_one({'email': data['email']})
GoogleFind(r) ==
    /\ req[r].pc = "find_google"
    /\ IF UsersByEmail(req[r].email) # {}
       THEN req' = [req EXCEPT ![r].uid = users[Min(UsersByEmail(req[r].email))].user_id, ![r].pc = "update_google"]
       ELSE req' = [req EXCEPT ![r].pc = "insert_google"]
    /\ UNCHANGED <<db, responses>>

\* await db.users.update_one({'user_id': user_id}, {'$set': {'name': ...,
\* 'picture': ...}}): no field of the model changes
GoogleUpdate(r) ==
    /\ req[r].pc = "update_google"
    /\ req' = [req EXCEPT ![r].pc = "insert_session", ![r].writes = @ + 1]
    /\ UNCHANGED <<db, responses>>

\* await db.users.insert_one({..., 'role': 'employee', ...}), no password_hash
GoogleInsert(r) ==
    /\ req[r].pc = "insert_google"
    /\ users' = Append(users, [user_id |-> NewUserId, email |-> req[r].email, role |-> "employee", password |-> "none"])
    /\ req' = [req EXCEPT ![r].uid = NewUserId, ![r].pc = "insert_session", ![r].writes = @ + 1]
    /\ UNCHANGED <<commerce, user_sessions, issued, responses>>

\* await db.user_sessions.insert_one({'user_id': ..., 'session_token': ...});
\* response.set_cookie('session_token', ...)
GoogleSession(r) ==
    /\ req[r].pc = "insert_session"
    /\ user_sessions' = Append(user_sessions, [user_id |-> req[r].uid, session_token |-> req[r].token])
    /\ issued' = issued \cup {Issue(req[r].token, req[r].uid)}
    /\ Respond(r, "ok")
    /\ UNCHANGED <<commerce, users>>

\* get_me, logout: user = Depends(get_current_user)
StartMe(r, cap) ==
    /\ req[r].pc = "idle"
    /\ Started < cap
    /\ \E p \in Presentable : req' = [req EXCEPT ![r] = Authenticate(r, "me", p)]
    /\ UNCHANGED <<db, responses>>

StartLogout(r, cap) ==
    /\ req[r].pc = "idle"
    /\ Started < cap
    /\ \E p \in Presentable : req' = [req EXCEPT ![r] = Authenticate(r, "logout", p)]
    /\ UNCHANGED <<db, responses>>

\* await db.user_sessions.delete_many({'user_id': user.user_id}); from here on
\* every token issued to the user so far is one issued before a logout
Logout(r) ==
    /\ req[r].pc = "delete_sessions"
    /\ user_sessions' = SelectSeq(user_sessions, LAMBDA d : d.user_id # req[r].uid)
    /\ issued' = {IF t.uid = req[r].uid THEN [t EXCEPT !.revoked = TRUE] ELSE t : t \in issued}
    /\ Respond(r, "ok")
    /\ UNCHANGED <<commerce, users>>

\* update_user_role(user_id, role): user = Depends(get_current_user)
StartUpdateRole(r, cap) ==
    /\ req[r].pc = "idle"
    /\ Started < cap
    /\ \E p \in Presentable, subject \in 1..MaxAuthRequests, role \in Roles \cup {"root"} :
        req' = [req EXCEPT ![r] = [Authenticate(r, "update_role", p) EXCEPT !.subject = subject, !.role = role]]
    /\ UNCHANGED <<db, responses>>

\* result = await db.users.update_one({'user_id': user_id}, {'$set': {'role':
\* role}}); 404 when matched_count == 0
UpdateRole(r) ==
    /\ req[r].pc = "update_role"
    /\ IF UsersById(req[r].subject) = {}
       THEN UNCHANGED users /\ Respond(r, "not_found")
       ELSE /\ users' = [users EXCEPT ![Min(UsersById(req[r].subject))].role = req[r].role]
            /\ Respond(r, "ok")
    /\ UNCHANGED <<commerce, user_sessions, issued>>

\* ------------------------------------------------------------ store errors
\* An awaited store call raises (the store is unreachable or times out): no
\* handler catches it, so the request ends there with an error response and
\* whatever it wrote before stays written.
StoreCalls ==
    {"sku_check", "insert_product", "insert_inventory", "stock_check", "insert_order", "adjust", "insert_txn",
     "update_product", "insert_category", "update_category", "read_category", "delete_category", "insert_type",
     "read_income", "read_expense", "count_orders", "count_pending", "count_low_stock",
     "find_email", "insert_user", "find_login", "find_google", "update_google", "insert_google", "insert_session",
     "delete_sessions", "update_role"}
StoreError(r) ==
    /\ req[r].pc \in StoreCalls
    /\ Respond(r, "error")
    /\ UNCHANGED db

\* ------------------------------------------------------------------- Next
Handlers(slots, lists, cap) ==
    \E r \in slots :
        \/ StartProduct(r, cap)
        \/ ProductSkuCheck(r)
        \/ ProductInsert(r)
        \/ ProductInitInventory(r)
        \/ StartPurchase(r, lists, cap)
        \/ PurchaseInsert(r)
        \/ PurchaseAdjust(r)
        \/ PurchaseLedger(r)
        \/ StartSales(r, lists, cap)
        \/ SalesStockCheck(r)
        \/ SalesInsert(r)
        \/ SalesAdjust(r)
        \/ SalesLedger(r)
        \/ StoreError(r)

\* The catalog: products, categories and product types.
CatalogHandlers(slots, cap) ==
    \E r \in slots :
        \/ StartProduct(r, cap)
        \/ ProductSkuCheck(r)
        \/ ProductInsert(r)
        \/ ProductInitInventory(r)
        \/ StartUpdateProduct(r, cap)
        \/ UpdateProduct(r)
        \/ StartCreateCategory(r, cap)
        \/ CategoryInsert(r)
        \/ StartUpdateCategory(r, cap)
        \/ CategoryUpdate(r)
        \/ CategoryRead(r)
        \/ StartDeleteCategory(r, cap)
        \/ CategoryDelete(r)
        \/ StartCreateType(r, cap)
        \/ TypeInsert(r)
        \/ StoreError(r)

\* The order handlers and the dashboard.
DashHandlers(slots, lists, cap) ==
    \/ Handlers(slots, lists, cap)
    \/ \E r \in slots :
        \/ StartDashboard(r, cap)
        \/ DashIncome(r)
        \/ DashExpense(r)
        \/ DashCountOrders(r)
        \/ DashCountPending(r)
        \/ DashLowStock(r)

\* The account handlers.
AuthHandlers(slots, cap) ==
    \E r \in slots :
        \/ StartRegister(r, cap)
        \/ RegisterCheck(r)
        \/ RegisterInsert(r)
        \/ StartLogin(r, cap)
        \/ LoginFind(r)
        \/ StartGoogle(r, cap)
        \/ GoogleFind(r)
        \/ GoogleUpdate(r)
        \/ GoogleInsert(r)
        \/ GoogleSession(r)
        \/ StartMe(r, cap)
        \/ StartLogout(r, cap)
        \/ Logout(r)
        \/ StartUpdateRole(r, cap)
        \/ UpdateRole(r)
        \/ AuthSession(r)
        \/ AuthUser(r)
        \/ AuthError(r)
        \/ StoreError(r)

\* Concurrent requests.
Next == Handlers(Slots, MainLists, MaxRequests)
Spec == Init /\ [][Next]_vars

\* Concurrent requests whose lines range over two products.
NextTwo == Handlers(Slots, TwoLists, MaxRequests)
SpecTwo == Init /\ [][NextTwo]_vars

\* One request at a time, with client-supplied prices and totals.
NextTot == Handlers({1}, TotLists, MaxTotRequests)
SpecTot == Init /\ [][NextTot]_vars

\* One request at a time.
NextSeq == Handlers({1}, SeqLists, MaxSeqRequests)
SpecSeq == Init /\ [][NextSeq]_vars

\* The store after create_product (SKU "X1") and a committed purchase order
\* of 10 units of the new product: stock 10, one expense entry.
ScenarioItems == <<[product_id |-> "p1", quantity |-> 10, unit_price |-> 1, total |-> 0]>>
InitStocked ==
    /\ products = {[product_id |-> "p1", sku |-> "X1"]}
    /\ inventory = <<[product_id |-> "p1", quantity |-> 10]>>
    /\ purchase_orders = <<PoDoc(1, ScenarioItems)>>
    /\ sales_orders = <<>>
    /\ transactions = <<PurchaseTxn(1, TotalAmount(ScenarioItems))>>
    /\ categories = {}
    /\ product_types = {}
    /\ users = <<>>
    /\ user_sessions = <<>>
    /\ issued = {}
    /\ req = [r \in Slots |-> Idle]
    /\ responses = <<[kind |-> "product", status |-> "ok", line |-> 0], [kind |-> "purchase", status |-> "ok", line |-> 0]>>

\* Concurrent requests of 6 units each against a stock of 10.
NextScenario == Handlers(Slots, ScenarioLists, MaxSeqRequests)
SpecScenario == InitStocked /\ [][NextScenario]_vars

\* Concurrent catalog requests.
NextCatalog == CatalogHandlers(Slots, MaxCatRequests)
SpecCatalog == Init /\ [][NextCatalog]_vars

\* Request bodies of the dashboard specification: one unit of one product.
DashLists == {<<it>> : it \in Item({"p1"}, {1}, 1..MaxPrice, {0})}
\* Orders committing while dashboards are computed.
NextDash == DashHandlers(Slots, DashLists, MaxDashRequests)
SpecDash == Init /\ [][NextDash]_vars

\* The event loop resumes every handler whose awaited store call has
\* returned: the next step of a request in flight is eventually taken.
\* Nothing obliges a store call to fail, or a client to send a request.
Progress(r) ==
    \/ ProductSkuCheck(r)
    \/ ProductInsert(r)
    \/ ProductInitInventory(r)
    \/ PurchaseInsert(r)
    \/ PurchaseAdjust(r)
    \/ PurchaseLedger(r)
    \/ SalesStockCheck(r)
    \/ SalesInsert(r)
    \/ SalesAdjust(r)
    \/ SalesLedger(r)
\* Request bodies of the fair specification.
LiveLists == ListsOf(Item({"p1"}, 1..MaxQty, {1}, {0}), MaxItems)
NextLive == Handlers(Slots, LiveLists, MaxLiveRequests)
SpecLive == Init /\ [][NextLive]_vars /\ \A r \in Slots : WF_vars(Progress(r))

\* Concurrent account requests.
NextAuth == AuthHandlers(Slots, MaxAuthRequests)
SpecAuth == Init /\ [][NextAuth]_vars

\* ================================================================== claims
Quiescent == InFlight = {}
CountStatus(kind, status) == Cardinality({k \in 1..Len(responses) : responses[k].kind = kind /\ responses[k].status = status})

\* C1: with stock(P) = 10, two concurrent create_sales_order requests for 6
\* units of P each end with exactly one accepted and one rejected for
\* insufficient stock, and the final stock of P is 4.
C1_TwoConcurrentSales ==
    (/\ Quiescent
     /\ Len(responses) = 4
     /\ \A k \in 3..4 : responses[k].kind = "sales" /\ responses[k].status \in {"ok", "insufficient_stock"})
    => (/\ CountStatus("sales", "ok") = 1
        /\ CountStatus("sales", "insufficient_stock") = 1
        /\ CurrentStock(inventory, "p1") = 4)

\* C2: under any interleaving of purchase and sales requests whose line
\* quantities are all positive, no inventory quantity is ever negative.
OrderLines(orders) == UNION {{orders[k].items[j] : j \in 1..Len(orders[k].items)} : k \in 1..Len(orders)}
RequestLines == UNION {{req[r].items[j] : j \in 1..Len(req[r].items)} : r \in Slots}
AllLinesPositive == \A l \in OrderLines(purchase_orders) \cup OrderLines(sales_orders) \cup RequestLines : l.quantity > 0
C2_StockNeverNegative ==
    AllLinesPositive => \A k \in 1..Len(inventory) : inventory[k].quantity >= 0

\* C3: the step that rejects a sales order for insufficient stock, on its
\* first or on a later line, changes no collection, and the request has
\* written nothing to the store before it.
Last(s) == s[Len(s)]
RejectsForStock(r) ==
    /\ req[r].pc = "stock_check"
    /\ req'[r].pc = "idle"
    /\ Len(responses') = Len(responses) + 1
    /\ Last(responses').status = "insufficient_stock"
C3_RejectionMutatesNothing ==
    [][\A r \in Slots : RejectsForStock(r) => (req[r].writes = 0 /\ UNCHANGED db)]_vars
\* a sales order was rejected on its second line, the first line being for
\* another product that is in stock, and that stock is still there
C3_Witness ==
    /\ \E k \in 1..Len(responses) : responses[k].status = "insufficient_stock" /\ responses[k].line = 2
    /\ sales_orders = <<>>
    /\ Len(purchase_orders) = 1
    /\ \E p \in ProductIds : CurrentStock(inventory, p) = 1
    /\ Quiescent

\* C4: a sales order that runs alone passes the stock check only if, for
\* every product, the sum of its line quantities is at most the stock.
RECURSIVE SumQty(_, _)
SumQty(items, p) ==
    IF items = <<>> THEN 0
    ELSE (IF items[1].product_id = p THEN items[1].quantity ELSE 0) + SumQty(Tail(items), p)
C4_SummedQuantityChecked ==
    \A r \in Slots :
        (req[r].kind = "sales" /\ req[r].pc = "insert_order")
        => \A p \in ItemIds(req[r].items) : SumQty(req[r].items, p) <= CurrentStock(inventory, p)

\* C5: run one after the other from a freshly created product P (stock 0):
\* a purchase order of n units makes stock(P) = n and appends one expense
\* entry; a following sales order of m <= n units is accepted, makes
\* stock(P) = n - m and appends one income entry; a following sales order of
\* k units more than the stock is rejected and leaves the store as it is.
History == [k \in 1..Len(responses) |-> <<responses[k].kind, responses[k].status>>]
Created == <<<<"product", "ok">>>>
Purchased == Append(Created, <<"purchase", "ok">>)
Sold == Append(Purchased, <<"sales", "ok">>)
Refused == Append(Sold, <<"sales", "insufficient_stock">>)
TheProduct == CHOOSE p \in products : TRUE
OneLineFor(order, P) == Len(order.items) = 1 /\ order.items[1].product_id = P
\* the purchase order of the scenario is a single line for the new product
PurchaseOfScenario ==
    /\ Cardinality(products) = 1
    /\ Len(purchase_orders) = 1
    /\ OneLineFor(purchase_orders[1], TheProduct.product_id)
SaleOfScenario ==
    /\ PurchaseOfScenario
    /\ Len(sales_orders) = 1
    /\ OneLineFor(sales_orders[1], TheProduct.product_id)
C5_State ==
    /\ (History = Created /\ Quiescent)
        => (inventory = <<[product_id |-> TheProduct.product_id, quantity |-> 0]>> /\ transactions = <<>>)
    /\ (History = Purchased /\ Quiescent /\ PurchaseOfScenario)
        => (/\ CurrentStock(inventory, TheProduct.product_id) = purchase_orders[1].items[1].quantity
            /\ Len(transactions) = 1
            /\ transactions[1].type = "expense"
            /\ transactions[1].amount = purchase_orders[1].total_amount)
    /\ (History = Sold /\ Quiescent /\ SaleOfScenario)
        => (/\ sales_orders[1].items[1].quantity <= purchase_orders[1].items[1].quantity
            /\ CurrentStock(inventory, TheProduct.product_id)
                 = purchase_orders[1].items[1].quantity - sales_orders[1].items[1].quantity
            /\ Len(transactions) = 2
            /\ transactions[2].type = "income"
            /\ transactions[2].amount = sales_orders[1].total_amount)
\* the stock check of the sales order that follows the purchase, or the sale
C5_Step ==
    \A r \in Slots :
        (/\ \/ History = Purchased /\ PurchaseOfScenario /\ sales_orders = <<>>
            \/ History = Sold /\ SaleOfScenario
         /\ req[r].kind = "sales"
         /\ req[r].pc = "stock_check"
         /\ OneLineFor(req[r], TheProduct.product_id)
         /\ req'[r] # req[r]
         /\ ~(Len(responses') > Len(responses) /\ Last(responses').status = "error"))
        => LET n == purchase_orders[1].items[1].quantity
               m == IF History = Sold THEN sales_orders[1].items[1].quantity ELSE 0
               k == req[r].items[1].quantity
           IN  IF k > n - m
               THEN /\ req'[r].pc = "idle"
                    /\ Last(responses').status = "insufficient_stock"
                    /\ UNCHANGED db
               ELSE /\ req'[r].pc = "insert_order"
                    /\ UNCHANGED responses
C5_SequentialScenario == [] C5_State /\ [][C5_Step]_vars
\* purchase of 3, sale of 1, then a sale refused with 2 left in stock
C5_Witness ==
    /\ History = Refused
    /\ SaleOfScenario
    /\ purchase_orders[1].items[1].quantity = 3
    /\ sales_orders[1].items[1].quantity = 1
    /\ CurrentStock(inventory, TheProduct.product_id) = 2
    /\ Len(transactions) = 2

\* C6: whenever no order request is in flight, the stock of every product
\* (0 without an inventory record) is the sum of the quantities of its
\* committed purchase-order lines minus that of its committed sales-order lines.
OrdersInFlight == {r \in Slots : req[r].kind \in {"purchase", "sales"}}
RECURSIVE SumOrders(_, _)
SumOrders(orders, p) ==
    IF orders = <<>> THEN 0 ELSE SumQty(orders[1].items, p) + SumOrders(Tail(orders), p)
C6_StockDerivedFromOrders ==
    OrdersInFlight = {}
    => \A p \in ProductIds :
        CurrentStock(inventory, p) = SumOrders(purchase_orders, p) - SumOrders(sales_orders, p)

\* C7: every stored line total of every committed order is quantity times
\* unit price, whatever 'total' the client sent, and the stored total_amount
\* is the sum of the stored line totals.
StoredTotal(order) == SumSeq([j \in 1..Len(order.items) |-> order.items[j].total])
TotalsRight(orders) ==
    \A k \in 1..Len(orders) :
        /\ \A j \in 1..Len(orders[k].items) :
            orders[k].items[j].total = orders[k].items[j].quantity * orders[k].items[j].unit_price
        /\ orders[k].total_amount = StoredTotal(orders[k])
C7_TotalsComputed == TotalsRight(purchase_orders) /\ TotalsRight(sales_orders)
\* a committed two-line sales order whose client sent a total of 3 for a line
\* of 2 units at 2 and a total of 0 for a line of 1 unit at 1
C7_Witness ==
    \E r \in Slots :
        /\ req[r].kind = "sales"
        /\ req[r].oid = Len(sales_orders)
        /\ req[r].oid > 0
        /\ Len(req[r].items) = 2
        /\ req[r].items[1] = [product_id |-> "p1", quantity |-> 2, unit_price |-> 2, total |-> 3]
        /\ req[r].items[2] = [product_id |-> "p1", quantity |-> 1, unit_price |-> 1, total |-> 0]
        /\ sales_orders[req[r].oid].total_amount = 5

\* C8: whenever no order request is in flight, every committed order has
\* exactly one ledger transaction that refers to it, of the order's
\* total_amount and of type expense/purchase or income/sales, and every
\* ledger transaction with a related_to refers to a committed order.
TxnsOf(ref) == {k \in 1..Len(transactions) : transactions[k].related_to = ref}
LedgerFor(orders, tag, type, category) ==
    \A k \in 1..Len(orders) :
        /\ Cardinality(TxnsOf(<<tag, orders[k].id>>)) = 1
        /\ \A t \in TxnsOf(<<tag, orders[k].id>>) :
            /\ transactions[t].amount = orders[k].total_amount
            /\ transactions[t].type = type
            /\ transactions[t].category = category
C8_OneLedgerEntryPerOrder ==
    OrdersInFlight = {}
    => /\ LedgerFor(purchase_orders, "po", "expense", "purchase")
       /\ LedgerFor(sales_orders, "so", "income", "sales")
       /\ \A t \in 1..Len(transactions) :
            \/ transactions[t].related_to[1] = "po" /\ transactions[t].related_to[2] \in 1..Len(purchase_orders)
            \/ transactions[t].related_to[1] = "so" /\ transactions[t].related_to[2] \in 1..Len(sales_orders)

\* C9: order creation is one unit of work: once a request has ended with a
\* store error, nothing it wrote remains, so that with no order request in
\* flight there are as many order records as accepted requests, and as many
\* ledger entries as order records.
C9_UnitOfWork ==
    OrdersInFlight = {}
    => /\ Len(purchase_orders) = CountStatus("purchase", "ok")
       /\ Len(sales_orders) = CountStatus("sales", "ok")
       /\ Len(transactions) = Len(purchase_orders) + Len(sales_orders)

\* C10: create_product whose SKU an existing product already has is rejected
\* at the SKU check, and that request inserts neither a product nor an
\* inventory record.
ChecksTakenSku(r) ==
    /\ req[r].pc = "sku_check"
    /\ \E p \in products : p.sku = req[r].sku
    /\ req'[r] # req[r]
C10_DuplicateSkuRejected ==
    [][\A r \in Slots : ChecksTakenSku(r)
        => (/\ req'[r] = Idle
            /\ Last(responses').kind = "product"
            /\ Last(responses').status \in {"sku_exists", "error"}
            /\ req[r].writes = 0
            /\ UNCHANGED <<products, inventory>>)]_vars
\* a create_product has been rejected for its SKU, one product holds that SKU
\* and it has its one inventory record
C10_Witness ==
    /\ \E k \in 1..Len(responses) : responses[k] = [kind |-> "product", status |-> "sku_exists", line |-> 0]
    /\ Cardinality(products) = 1
    /\ Len(inventory) = 1
    /\ Quiescent

\* C11: under any interleaving of concurrent create_product requests, no two
\* product records have the same SKU.
C11_SkuUnique == \A p, q \in products : p.sku = q.sku => p = q

\* C12: the SKU of an existing product never changes: no step, in particular
\* none of update_product, leaves a product with a SKU other than the one it
\* had.
C12_SkuImmutable ==
    [][\A p \in products : \A q \in products' : q.product_id = p.product_id => q.sku = p.sku]_vars

\* C13: in no state, while create_product runs or after one of its writes has
\* failed, is there a product record without an inventory record for its
\* product id.
C13_ProductHasInventory == \A p \in products : InvMatches(inventory, p.product_id) # {}

\* C14: a purchase or sales order with an empty items list is rejected before
\* any mutation: no committed order has an empty items list and no order
\* request with an empty items list has written to the store.
C14_EmptyOrderRejected ==
    /\ \A k \in 1..Len(purchase_orders) : purchase_orders[k].items # <<>>
    /\ \A k \in 1..Len(sales_orders) : sales_orders[k].items # <<>>
    /\ \A r \in OrdersInFlight : req[r].items = <<>> => req[r].writes = 0

\* C15: a purchase order with a line for a product that does not exist is
\* rejected before any mutation, so that every inventory record and every
\* committed order line refers to a product of the catalog.
KnownProducts == {p.product_id : p \in products}
C15_LinesReferToProducts ==
    /\ \A k \in 1..Len(inventory) : inventory[k].product_id \in KnownProducts
    /\ \A l \in OrderLines(purchase_orders) \cup OrderLines(sales_orders) : l.product_id \in KnownProducts

\* C16: every line of every committed purchase or sales order has a
\* quantity greater than 0.
C16_CommittedQuantitiesPositive ==
    \A l \in OrderLines(purchase_orders) \cup OrderLines(sales_orders) : l.quantity > 0

\* C17: a create_purchase_order call by a caller who is neither manager nor
\* admin is answered 403 in a step that changes no collection and starts no
\* request; a create_sales_order call is accepted for every role and no sales
\* request is ever answered 403.
C17_Step ==
    \A r \in Slots, items \in MainLists :
        req[r].pc = "idle"
        => /\ \A role \in Roles \ {"manager", "admin"} :
                PurchaseCall(r, role, items)
                => (/\ responses' = Append(responses, [kind |-> "purchase", status |-> "forbidden", line |-> 0])
                    /\ UNCHANGED <<db, req>>)
           /\ \A role \in Roles :
                SalesCall(r, role, items)
                => (req'[r].kind = "sales" /\ req'[r].pc # "idle" /\ req'[r].items = items /\ UNCHANGED responses)
C17_NoSaleForbidden ==
    \A k \in 1..Len(responses) : responses[k].kind = "sales" => responses[k].status # "forbidden"
C17_RolePolicy == [] C17_NoSaleForbidden /\ [][C17_Step]_vars
\* a manager's purchase order and a sales order are committed, and a
\* purchase order call has been refused: one order of each kind, two ledger
\* entries
C17_Witness ==
    /\ CountStatus("purchase", "forbidden") = 1
    /\ CountStatus("purchase", "ok") = 1
    /\ CountStatus("sales", "ok") = 1
    /\ Len(purchase_orders) = 1
    /\ Len(sales_orders) = 1
    /\ Len(transactions) = 2
    /\ Quiescent

\* C18: every call of create/update/delete category, create product type and
\* create/update product by a caller whose role is employee is answered 403
\* in a step that changes no collection and starts no request.
RefusedAs(kind) ==
    /\ responses' = Append(responses, [kind |-> kind, status |-> "forbidden", line |-> 0])
    /\ UNCHANGED <<db, req>>
C18_Step ==
    \A r \in Slots :
        req[r].pc = "idle"
        => /\ \A name \in Names : CreateCategoryCall(r, "employee", name) => RefusedAs("create_category")
           /\ \A id \in CategoryIds, name \in Names :
                UpdateCategoryCall(r, "employee", id, name) => RefusedAs("update_category")
           /\ \A id \in CategoryIds : DeleteCategoryCall(r, "employee", id) => RefusedAs("delete_category")
           /\ \A name \in Names, id \in CategoryIds :
                CreateTypeCall(r, "employee", name, id) => RefusedAs("create_type")
           /\ \A sku \in Skus : ProductCall(r, "employee", sku) => RefusedAs("product")
           /\ \A id \in ProductIds, sku \in Skus :
                UpdateProductCall(r, "employee", id, sku) => RefusedAs("update_product")
C18_EmployeeCannotMutateCatalog == [][C18_Step]_vars
\* a category exists, and a delete_category call and an update_category call
\* have been refused
C18_Witness ==
    /\ Cardinality(categories) = 1
    /\ CountStatus("delete_category", "forbidden") = 1
    /\ CountStatus("update_category", "forbidden") = 1
    /\ Quiescent

\* C19: the ledger is append-only: no step removes a transaction, and every
\* transaction keeps all of its fields in every later state.
C19_LedgerAppendOnly ==
    [][/\ Len(transactions') >= Len(transactions)
       /\ \A k \in 1..Len(transactions) : transactions'[k] = transactions[k]]_vars
\* two sales orders have been committed after a purchase order: one expense
\* entry and two income entries
C19_Witness ==
    /\ Len(transactions) = 3
    /\ transactions[1].type = "expense"
    /\ transactions[2].type = "income"
    /\ transactions[3].type = "income"

\* C20: every order record has 0 <= paid_amount <= total_amount, with
\* payment_status 'unpaid' and paid_amount 0.
PaidWithinTotal(orders) ==
    \A k \in 1..Len(orders) :
        /\ 0 <= orders[k].paid_amount
        /\ orders[k].paid_amount <= orders[k].total_amount
        /\ orders[k].paid_amount = 0
        /\ orders[k].payment_status = "unpaid"
C20_PaidWithinTotal == PaidWithinTotal(purchase_orders) /\ PaidWithinTotal(sales_orders)

\* C21: every DashboardStats returned has total_profit = total_revenue -
\* total_expenses, the revenue and the expenses are the sums of the amounts
\* of the income and of the expense transactions at the moment they are
\* read, and no step of get_dashboard_stats changes a collection.
Dashboards == {k \in 1..Len(responses) : responses[k].kind = "dashboard" /\ responses[k].status = "ok"}
C21_ProfitEquation ==
    \A k \in Dashboards :
        responses[k].stats.total_profit = responses[k].stats.total_revenue - responses[k].stats.total_expenses
C21_Step ==
    \A r \in Slots :
        (req[r].kind = "dashboard" /\ req'[r] # req[r])
        => /\ UNCHANGED db
           /\ req[r].pc = "read_income" /\ req'[r].pc = "read_expense"
                => req'[r].stats.total_revenue = SumAmounts(transactions, "income")
           /\ req[r].pc = "read_expense" /\ req'[r].pc = "count_orders"
                => req'[r].stats.total_expenses = SumAmounts(transactions, "expense")
           /\ req[r].pc = "count_low_stock" /\ Last(responses').status = "ok"
                => /\ Last(responses').stats.total_revenue = req[r].stats.total_revenue
                   /\ Last(responses').stats.total_expenses = req[r].stats.total_expenses
                   /\ Last(responses').stats.total_profit = req[r].stats.total_profit
C24_PendingWithinTotal ==
    \A k \in Dashboards : responses[k].stats.pending_orders <= responses[k].stats.total_orders

\* C22: when the next step of every request in flight is eventually taken,
\* every create_purchase_order and create_sales_order request that has
\* started eventually ends, committed or rejected, whatever the other
\* requests do.
C22_OrdersTerminate ==
    \A r \in Slots : (req[r].kind \in {"purchase", "sales"}) ~> (req[r].pc = "idle")
\* a sales order is checking its second line while a purchase order is
\* adjusting the stock of the same product
C22_Witness ==
    \E r, q \in Slots :
        /\ req[r].kind = "sales" /\ req[r].pc = "stock_check" /\ req[r].i = 2
        /\ req[q].kind = "purchase" /\ req[q].pc = "adjust"

\* C23: an account is created with the role employee, by register and by
\* google_auth_session alike, and the role of an account changes only in the
\* update_one of an update_user_role request whose caller is an admin.
C23_RolesOnlyFromAdmin ==
    [][\A k \in 1..Len(users') :
        IF k > Len(users)
        THEN users'[k].role = "employee"
        ELSE users'[k].role # users[k].role
             => \E r \in Slots :
                 /\ req[r].kind = "update_role"
                 /\ req[r].pc = "update_role"
                 /\ req[r].caller = "admin"
                 /\ req'[r] = Idle]_vars

\* C25: a request that presents a token issued to a user before a logout of
\* that user completed, a session token or a signed JWT, is rejected by
\* get_current_user.
C25_LoggedOutTokenRejected ==
    [][\A r \in Slots :
        (req[r].stale /\ req[r].pc \in {"auth_session", "auth_user"} /\ req'[r] # req[r])
        => (req'[r].pc \in {"idle", "auth_user"}
            /\ (req'[r].pc = "idle" => Last(responses').status = "unauthenticated"))]_vars

====
